---- MODULE Spec2Model ----
(***************************************************************************)
(* A model of the CSV data cleansing container: the DataCleaner class of   *)
(* main.py (field normalizers, clean_data, the store appends, the backup   *)
(* files, run_pipeline).                                                   *)
(*                                                                         *)
(* Text is a sequence of one-character strings.  A character outside       *)
(* 7-bit ASCII is written by name ("e_acute", "E_ACUTE", "eszett").  A     *)
(* DataFrame cell is a record: kind "nan" for a missing value, kind "str"  *)
(* for text.                                                               *)
(***************************************************************************)
EXTENDS Integers, Sequences, FiniteSets, TLC

\* ------------------------------------------------------------------ bounds

\* longest enumerated genres text, and longest text between the brackets
MaxGenreLen == 4
\* most comma-separated candidates in an enumerated feat_track_ids text
MaxPieces == 2

\* ------------------------------------------------------------- characters

LowerLetters == <<"a","b","c","d","e","f","g","h","i","j","k","l","m",
                  "n","o","p","q","r","s","t","u","v","w","x","y","z">>
UpperLetters == <<"A","B","C","D","E","F","G","H","I","J","K","L","M",
                  "N","O","P","Q","R","S","T","U","V","W","X","Y","Z">>
Digits == {"0","1","2","3","4","5","6","7","8","9"}

Range(f) == {f[i] : i \in DOMAIN f}

\* characters outside 7-bit ASCII
NonAscii == {"e_acute", "E_ACUTE", "eszett", "byte_FF", "U_FFFD"}

IsAscii(c) == c \notin NonAscii

IsLower(c) == c \in Range(LowerLetters) \cup {"e_acute", "eszett"}

\* [a-zA-Z0-9]
IsAlnum(c) == c \in Range(LowerLetters) \cup Range(UpperLetters) \cup Digits

\* str.isspace() for the characters modelled
IsSpace(c) == c = " "

\* a character of a Python identifier (digits are outside the alphabet of
\* the literal parser below)
IsIdentChar(c) ==
    \/ c \in Range(LowerLetters) \cup Range(UpperLetters)
    \/ c \in NonAscii

IsQuote(c) == c = "'" \/ c = "\""

\* ------------------------------------------------------------ str methods

RECURSIVE Concat(_)
\* "".join(ss)
Concat(ss) == IF ss = <<>> THEN <<>> ELSE Head(ss) \o Concat(Tail(ss))

RECURSIVE Join(_, _)
\* sep.join(ss)
Join(ss, sep) ==
    IF ss = <<>> THEN <<>>
    ELSE IF Len(ss) = 1 THEN ss[1]
    ELSE ss[1] \o sep \o Join(Tail(ss), sep)

\* str.upper() of one character: eszett becomes two characters
UpperChar(c) ==
    IF c = "e_acute" THEN <<"E_ACUTE">>
    ELSE IF c = "eszett" THEN <<"S", "S">>
    ELSE IF \E i \in DOMAIN LowerLetters : LowerLetters[i] = c
         THEN <<UpperLetters[CHOOSE i \in DOMAIN LowerLetters : LowerLetters[i] = c]>>
    ELSE <<c>>

\* s.upper()
Upper(s) == Concat([i \in DOMAIN s |-> UpperChar(s[i])])

\* s.encode('ascii', errors='ignore').decode('ascii')
AsciiClean(s) == SelectSeq(s, IsAscii)

\* s.strip()
Strip(s) ==
    IF \A i \in DOMAIN s : IsSpace(s[i]) THEN <<>>
    ELSE LET a == CHOOSE i \in DOMAIN s :
                      /\ ~IsSpace(s[i])
                      /\ \A j \in 1..(i - 1) : IsSpace(s[j])
             b == CHOOSE i \in DOMAIN s :
                      /\ ~IsSpace(s[i])
                      /\ \A j \in (i + 1)..Len(s) : IsSpace(s[j])
         IN  SubSeq(s, a, b)

RECURSIVE Split(_, _)
\* s.split(c) for a one-character separator
Split(s, c) ==
    IF \A i \in DOMAIN s : s[i] # c THEN <<s>>
    ELSE LET k == CHOOSE i \in DOMAIN s :
                      s[i] = c /\ \A j \in 1..(i - 1) : s[j] # c
         IN  <<SubSeq(s, 1, k - 1)>> \o Split(SubSeq(s, k + 1, Len(s)), c)

\* ------------------------------------------------------------------ cells

NaN == [kind |-> "nan", s |-> <<>>]
Str(s) == [kind |-> "str", s |-> s]

\* pd.notna(x) and isinstance(x, str) and x.strip()
IsText(x) == x.kind = "str" /\ Strip(x.s) # <<>>

\* ------------------------------------------------------- ast.literal_eval
\* The parser covers texts over brackets, braces, commas, blanks, quotes
\* and letters.  No letter next to a quote is a string prefix (r, b, u, f)
\* in the texts it is applied to, and no run of letters is a keyword.

NStr(s)  == [t |-> "str",  s |-> s,    e |-> <<>>]
NList(e) == [t |-> "list", s |-> <<>>, e |-> e]
NSet(e)  == [t |-> "set",  s |-> <<>>, e |-> e]
NTuple(e) == [t |-> "tuple", s |-> <<>>, e |-> e]
NDict == [t |-> "dict", s |-> <<>>, e |-> <<>>]
NName == [t |-> "name", s |-> <<>>, e |-> <<>>]
NSub  == [t |-> "sub",  s |-> <<>>, e |-> <<>>]

ParseErr == [ok |-> FALSE, node |-> NName, nodes |-> <<>>, pos |-> 0]
ParseOk(node, pos) == [ok |-> TRUE, node |-> node, nodes |-> <<>>, pos |-> pos]
ParseOkSeq(nodes, pos) == [ok |-> TRUE, node |-> NName, nodes |-> nodes, pos |-> pos]

\* the first position from i on that holds no blank (Len(s) + 1 at the end)
SkipWs(s, i) ==
    CHOOSE j \in i..(Len(s) + 1) :
        /\ j = Len(s) + 1 \/ ~IsSpace(s[j])
        /\ \A k \in i..(j - 1) : IsSpace(s[k])

\* the end of the run of identifier characters that starts at i
NameEnd(s, i) ==
    CHOOSE j \in i..Len(s) :
        /\ \A k \in i..j : IsIdentChar(s[k])
        /\ j = Len(s) \/ ~IsIdentChar(s[j + 1])

RECURSIVE ParseStrings(_, _, _)
\* STRING+ : adjacent string literals, concatenated
ParseStrings(s, j, acc) ==
    LET q == s[j]
        triple == j + 2 <= Len(s) /\ s[j + 1] = q /\ s[j + 2] = q
        from == IF triple THEN j + 3 ELSE j + 1
        IsClose(k) == IF triple
                      THEN k + 2 <= Len(s) /\ s[k] = q /\ s[k + 1] = q /\ s[k + 2] = q
                      ELSE s[k] = q
        closes == {k \in from..Len(s) : IsClose(k)}
    IN  IF closes = {} THEN ParseErr
        ELSE LET k == CHOOSE c \in closes : \A d \in closes : c <= d
                 next == IF triple THEN k + 3 ELSE k + 1
                 text == acc \o SubSeq(s, from, k - 1)
                 m == SkipWs(s, next)
             IN  IF m <= Len(s) /\ IsQuote(s[m])
                 THEN ParseStrings(s, m, text)
                 ELSE ParseOk(NStr(text), next)

RECURSIVE ParseExpr(_, _)
RECURSIVE ParseSeq(_, _, _, _)
RECURSIVE ParseTrailers(_, _, _)

\* a list display whose elements r have been parsed
ListAtom(r) == IF r.ok THEN ParseOk(NList(r.nodes), r.pos) ELSE ParseErr

\* a set display, or {} (a dict), whose elements r have been parsed
BraceAtom(r) ==
    IF ~r.ok THEN ParseErr
    ELSE IF r.nodes = <<>> THEN ParseOk(NDict, r.pos)
    ELSE ParseOk(NSet(r.nodes), r.pos)

\* atom: STRING+ | NAME | '[' [elts] ']' | '{' [elts] '}'
ParseAtom(s, j) ==
    IF j > Len(s) THEN ParseErr
    ELSE IF IsQuote(s[j]) THEN ParseStrings(s, j, <<>>)
    ELSE IF s[j] = "[" THEN ListAtom(ParseSeq(s, j + 1, "]", <<>>))
    ELSE IF s[j] = "{" THEN BraceAtom(ParseSeq(s, j + 1, "}", <<>>))
    ELSE IF IsIdentChar(s[j]) THEN ParseOk(NName, NameEnd(s, j) + 1)
    ELSE ParseErr

\* what follows an element r of a display: a comma and more elements, or
\* the closing character at position k
SeqAfter(s, close, acc, r, k) ==
    IF ~r.ok THEN ParseErr
    ELSE IF k > Len(s) THEN ParseErr
    ELSE IF s[k] = "," THEN ParseSeq(s, k + 1, close, Append(acc, r.node))
    ELSE IF s[k] = close THEN ParseOkSeq(Append(acc, r.node), k + 1)
    ELSE ParseErr

\* an element r of a display and the text after it
SeqElement(s, close, acc, r) ==
    SeqAfter(s, close, acc, r, IF r.ok THEN SkipWs(s, r.pos) ELSE 0)

\* the elements of a display from the first non-blank position j on
SeqFrom(s, j, close, acc) ==
    IF j > Len(s) THEN ParseErr
    ELSE IF s[j] = close THEN ParseOkSeq(acc, j + 1)
    ELSE SeqElement(s, close, acc, ParseExpr(s, j))

\* expr (',' expr)* [','] up to the closing character; pos is after it
ParseSeq(s, i, close, acc) == SeqFrom(s, SkipWs(s, i), close, acc)

\* a subscript whose slices r have been parsed, and the trailers after it
TrailerAfter(s, r) ==
    IF ~r.ok \/ r.nodes = <<>> THEN ParseErr
    ELSE ParseTrailers(s, r.pos, NSub)

TrailersFrom(s, i, node, k) ==
    IF k <= Len(s) /\ s[k] = "["
    THEN TrailerAfter(s, ParseSeq(s, k + 1, "]", <<>>))
    ELSE ParseOk(node, i)

\* subscripts after an atom: atom '[' slices ']' ...
ParseTrailers(s, i, node) == TrailersFrom(s, i, node, SkipWs(s, i))

\* an atom r and its trailers
ExprAfter(s, r) == IF r.ok THEN ParseTrailers(s, r.pos, r.node) ELSE ParseErr

ParseExpr(s, j) == ExprAfter(s, ParseAtom(s, j))

RECURSIVE ParseTop(_, _, _, _)

\* what follows an expression r at the top level: the end of the text or a
\* comma, at position k
TopAfter(s, acc, comma, r, k) ==
    IF ~r.ok THEN ParseErr
    ELSE IF k > Len(s)
         THEN IF comma THEN ParseOk(NTuple(Append(acc, r.node)), k)
              ELSE ParseOk(r.node, k)
    ELSE IF s[k] = "," THEN ParseTop(s, k + 1, Append(acc, r.node), TRUE)
    ELSE ParseErr

TopElement(s, acc, comma, r) ==
    TopAfter(s, acc, comma, r, IF r.ok THEN SkipWs(s, r.pos) ELSE 0)

TopFrom(s, j, acc, comma) ==
    IF j > Len(s)
    THEN IF acc = <<>> THEN ParseErr
         ELSE IF comma THEN ParseOk(NTuple(acc), j)
         ELSE ParseOk(acc[1], j)
    ELSE TopElement(s, acc, comma, ParseExpr(s, j))

\* ast.parse(text.lstrip(" \t"), mode='eval'): expr (',' expr)* [','] EOF;
\* a comma anywhere at this level makes the expression a tuple
ParseTop(s, i, acc, comma) == TopFrom(s, SkipWs(s, i), acc, comma)

EvalOk(v) == [k |-> "ok", v |-> v]
EvalRaise(name) == [k |-> name, v |-> NName]

\* hash(v) succeeds
Hashable(v) == v.t = "str"

\* a member added to the members seen so far
DedupAdd(rest, last) ==
    IF \E i \in DOMAIN rest : rest[i] = last THEN rest ELSE Append(rest, last)

RECURSIVE Dedup(_)
\* the members of a set display, each once
Dedup(vs) ==
    IF vs = <<>> THEN <<>>
    ELSE DedupAdd(Dedup(SubSeq(vs, 1, Len(vs) - 1)), vs[Len(vs)])

RECURSIVE Convert(_)
RECURSIVE ConvertAll(_, _, _)

\* the first element converted to r, then the rest
ConvertRest(elts, acc, hashing, r) ==
    IF r.k # "ok" THEN r
    ELSE IF hashing /\ ~Hashable(r.v) THEN EvalRaise("TypeError")
    ELSE ConvertAll(Tail(elts), Append(acc, r.v), hashing)

\* map(_convert, elts), consumed left to right: the first exception wins;
\* hashing says whether each value is hashed as it is produced (set(...))
ConvertAll(elts, acc, hashing) ==
    IF elts = <<>> THEN EvalOk(NList(acc))
    ELSE ConvertRest(elts, acc, hashing, Convert(Head(elts)))

\* tuple(...) of the converted elements r
TupleOf(r) == IF r.k = "ok" THEN EvalOk(NTuple(r.v.e)) ELSE r

\* set(...) of the converted elements r
SetOf(r) == IF r.k = "ok" THEN EvalOk(NSet(Dedup(r.v.e))) ELSE r

\* literal_eval's _convert
Convert(node) ==
    IF node.t = "str" THEN EvalOk(node)
    ELSE IF node.t = "dict" THEN EvalOk(node)
    ELSE IF node.t = "list" THEN ConvertAll(node.e, <<>>, FALSE)
    ELSE IF node.t = "tuple" THEN TupleOf(ConvertAll(node.e, <<>>, FALSE))
    ELSE IF node.t = "set" THEN SetOf(ConvertAll(node.e, <<>>, TRUE))
    ELSE EvalRaise("ValueError")

\* the value of the parsed expression r
EvalParsed(r) == IF r.ok THEN Convert(r.node) ELSE EvalRaise("SyntaxError")

\* ast.literal_eval(text)
literal_eval(s) == EvalParsed(ParseTop(s, 1, <<>>, FALSE))

RECURSIVE Repr(_)
\* repr(v) of a value literal_eval returned
Repr(v) ==
    IF v.t = "str" THEN
        LET hasS == \E i \in DOMAIN v.s : v.s[i] = "'"
            hasD == \E i \in DOMAIN v.s : v.s[i] = "\""
            q == IF hasS /\ ~hasD THEN "\"" ELSE "'"
            Esc(c) == IF c = q THEN <<"\\", c>> ELSE <<c>>
        IN  <<q>> \o Concat([i \in DOMAIN v.s |-> Esc(v.s[i])]) \o <<q>>
    ELSE IF v.t = "dict" THEN <<"{", "}">>
    ELSE LET open == IF v.t = "list" THEN "[" ELSE IF v.t = "set" THEN "{" ELSE "("
             close == IF v.t = "list" THEN "]" ELSE IF v.t = "set" THEN "}" ELSE ")"
         IN  <<open>> \o Join([i \in DOMAIN v.e |-> Repr(v.e[i])], <<",", " ">>)
                      \o <<close>>

\* str(item)
PyStr(v) == IF v.t = "str" THEN v.s ELSE Repr(v)

\* --------------------------------------------------------- parse_genres

\* the outcome of a normalizer call: the exception it raised ("none" when it
\* returned), whether it logged a warning, and the list it returned
Outcome(exc, warned, val) == [exc |-> exc, warned |-> warned, val |-> val]

\* [item.strip()...ascii for item in x.split(',') if item.strip()]
SplitTokens(s) ==
    LET items == Split(s, ",")
        kept == SelectSeq(items, LAMBDA item : Strip(item) # <<>>)
    IN  [i \in DOMAIN kept |-> AsciiClean(Strip(kept[i]))]

\* a test that forgets the closing bracket
Bracketed_StartOnly(s) == s # <<>> /\ s[1] = "["

\* x.startswith('[') and x.endswith(']')
Bracketed(s) == s # <<>> /\ s[1] = "[" /\ s[Len(s)] = "]"

\* the try block of parse_genres on a bracketed text s, r being what
\* ast.literal_eval(s) gives: a list is cleaned element by element, another
\* value falls through to the split, SyntaxError and ValueError are caught
\* with a warning, any other exception leaves parse_genres
Evaluated(s, r) ==
    IF r.k = "ok" /\ r.v.t = "list"
    THEN Outcome("none", FALSE,
                 [i \in DOMAIN r.v.e |-> AsciiClean(Strip(PyStr(r.v.e[i])))])
    ELSE IF r.k = "ok" THEN Outcome("none", FALSE, SplitTokens(s))
    ELSE IF r.k \in {"SyntaxError", "ValueError"}
    THEN Outcome("none", TRUE, SplitTokens(s))
    ELSE Outcome(r.k, FALSE, <<>>)

parse_genres(x) ==
    IF ~IsText(x) THEN Outcome("none", FALSE, <<>>)
    ELSE IF ~Bracketed(x.s) THEN Outcome("none", FALSE, SplitTokens(x.s))
    ELSE Evaluated(x.s, literal_eval(x.s))


\* ------------------------------------------------------ parse_track_ids

\* the length the identifier pattern asks for
IdLen == 22

\* the pattern without its end anchor
IdPatternMatch_NoEnd(item) ==
    /\ Len(item) >= IdLen
    /\ \A i \in 1..IdLen : IsAlnum(item[i])

\* id_pattern.match(item) for ^[a-zA-Z0-9]{22}$ (no line feed is modelled)
IdPatternMatch(item) ==
    /\ Len(item) = IdLen
    /\ \A i \in DOMAIN item : IsAlnum(item[i])

\* [item.strip() for item in x.split(',')] if ',' in x else [x.strip()]
TrackItems(s) ==
    IF \E i \in DOMAIN s : s[i] = ","
    THEN LET parts == Split(s, ",") IN [i \in DOMAIN parts |-> Strip(parts[i])]
    ELSE <<Strip(s)>>

\* item and id_pattern.match(item)
ValidItem(item) == item # <<>> /\ IdPatternMatch(item)

InvalidItem(item) == ~ValidItem(item)

parse_track_ids(x) ==
    IF ~IsText(x) THEN Outcome("none", FALSE, <<>>)
    ELSE LET items == TrackItems(x.s)
             valid == SelectSeq(items, ValidItem)
             invalid_items == SelectSeq(items, InvalidItem)
         IN  Outcome("none", invalid_items # <<>>,
                     [i \in DOMAIN valid |-> AsciiClean(valid[i])])

\* ------------------------------------------------- inputs of the normalizers

\* all texts of at most n characters over the alphabet
Texts(alphabet, n) == UNION {[1..k -> alphabet] : k \in 0..n}

GenreAlphabet == {"[", "]", ",", " ", "'", "p", "e_acute"}

\* "pop, rock"
PopRock == <<"p","o","p",","," ","r","o","c","k">>
\* "[pop, rock"
OpenPopRock == <<"[">> \o PopRock
\* "[pop, rock]"
NamesPopRock == <<"[">> \o PopRock \o <<"]">>
\* "['pop', 'rock']"
ListPopRock == <<"[","'","p","o","p","'",","," ","'","r","o","c","k","'","]">>
\* "[{[]}]": a list display that holds a set display of a list
SetOfList == <<"[","{","[","]","}","]">>

GenreExamples == {PopRock, OpenPopRock, NamesPopRock, ListPopRock, SetOfList}

GenreTexts ==
    Texts(GenreAlphabet, MaxGenreLen)
        \cup {<<"[">> \o s \o <<"]">> : s \in Texts(GenreAlphabet, MaxGenreLen)}
        \cup GenreExamples

\* "abcdefghijklmnopqrstuv"
AlphaId == SubSeq(LowerLetters, 1, IdLen)
\* 22 characters, letters of both cases and digits
MixedId == <<"0","9","A","Z">> \o SubSeq(LowerLetters, 1, IdLen - 4)
\* "bad!!"
BadToken == <<"b","a","d","!","!">>

TrackPieces ==
    { AlphaId, MixedId, BadToken, <<>>, <<" ">>,
      <<" ">> \o AlphaId \o <<" ">>,
      SubSeq(AlphaId, 1, IdLen - 1),
      AlphaId \o <<"w">>,
      SubSeq(AlphaId, 1, IdLen - 1) \o <<"!">>,
      SubSeq(AlphaId, 1, IdLen - 1) \o <<"e_acute">>,
      SubSeq(AlphaId, 1, IdLen - 1) \o <<" ">>,
      SubSeq(AlphaId, 1, IdLen - 2) \o <<" ", "v">> }

\* the pieces joined by commas
TrackTexts ==
    {Join(ps, <<",">>) : ps \in UNION {[1..k -> TrackPieces] : k \in 1..MaxPieces}}

\* ----------------------------------------------------------- DataFrames
\* A DataFrame is its set of column labels and its rows in order; a row keeps
\* its index label (idx, the position in the frame that was read) through
\* every selection.  A cell of kind "num" is a number, written in digits.

Num(s) == [kind |-> "num", s |-> s]

Columns == {"dates", "ids", "names", "monthly_listeners", "popularity",
            "followers", "genres", "first_release", "last_release",
            "num_releases", "num_tracks", "playlists_found", "feat_track_ids"}

Frame(columns, rows) == [columns |-> columns, rows |-> rows]

\* dtype of a column as read_csv infers it: object when a cell holds text,
\* and for a frame without rows
ObjectDtype(df, col) ==
    \/ df.rows = <<>>
    \/ \E i \in DOMAIN df.rows : df.rows[i][col].kind = "str"

\* "2024-01-02"
IsoDate == <<"2","0","2","4","-","0","1","-","0","2">>
\* "not a date"
NotADate == <<"n","o","t"," ","a"," ","d","a","t","e">>

\* pd.to_datetime(..., dayfirst=True, errors='coerce').dt.strftime('%Y-%m-%d')
\* of one cell, for the date texts modelled: an ISO date formats to itself,
\* anything else is coerced to NaT and formats to NaN
to_datetime_strftime(x) ==
    IF x.kind = "str" /\ x.s = IsoDate THEN Str(IsoDate) ELSE NaN

\* the two string steps in the other order
NormalizeName_DropFirst(x) ==
    IF x.kind = "str" THEN Str(Upper(AsciiClean(x.s))) ELSE NaN

\* .str.upper().str.encode('ascii', errors='ignore').str.decode('ascii')
\* of one cell of an object column
NormalizeName(x) ==
    IF x.kind = "str" THEN Str(AsciiClean(Upper(x.s))) ELSE NaN

\* a numeric column that holds a missing value is a float column
FloatDtype(df, col) ==
    /\ ~ObjectDtype(df, col)
    /\ \E i \in DOMAIN df.rows : df.rows[i][col].kind = "nan"

\* the playlists_found cell: ASCII-cleaned in an object column, else
\* astype(str), which writes a missing number as nan and a number of a
\* float column with its decimal point
NormalizePlaylists(df, x) ==
    IF ObjectDtype(df, "playlists_found")
    THEN IF x.kind = "str" THEN Str(AsciiClean(x.s)) ELSE NaN
    ELSE IF x.kind = "nan" THEN Str(<<"n","a","n">>)
    ELSE IF FloatDtype(df, "playlists_found") THEN Str(x.s \o <<".", "0">>)
    ELSE Str(x.s)

\* one row after the column assignments of clean_data
NormalizeRow(df, r) ==
    [r EXCEPT !.dates = to_datetime_strftime(r.dates),
              !.names = NormalizeName(r.names),
              !.genres = parse_genres(r.genres).val,
              !.feat_track_ids = parse_track_ids(r.feat_track_ids).val,
              !.playlists_found = NormalizePlaylists(df, r.playlists_found)]

\* a mask that looks at the row before only
Duplicated_Adjacent(rows, i) == i > 1 /\ rows[i - 1].ids = rows[i].ids

\* keep='last'
Duplicated_KeepLast(rows, i) == \E j \in (i + 1)..Len(rows) : rows[j].ids = rows[i].ids

\* keep=False
Duplicated_KeepFalse(rows, i) ==
    \E j \in DOMAIN rows : j # i /\ rows[j].ids = rows[i].ids

\* df.duplicated(subset=['ids'], keep='first'): a row is marked when an
\* earlier row holds the same ids (two missing ids count as the same)
Duplicated(rows, i) == \E j \in 1..(i - 1) : rows[j].ids = rows[i].ids

\* the positions a boolean mask selects, in order
Positions(n, Keep(_)) ==
    LET F[i \in 0..n] ==
            IF i = 0 THEN <<>>
            ELSE IF Keep(i) THEN Append(F[i - 1], i) ELSE F[i - 1]
    IN  F[n]

\* the exception the statements of clean_data raise, the first one in
\* statement order ("none" when clean_data returns)
CleanDataExc(df) ==
    LET has(c) == c \in df.columns
        invalid_dates == \E i \in DOMAIN df.rows :
                             to_datetime_strftime(df.rows[i].dates) = NaN
        raised == [i \in DOMAIN df.rows |-> parse_genres(df.rows[i].genres).exc]
        raising == {i \in DOMAIN df.rows : raised[i] # "none"}
    IN  IF ~has("dates") THEN "KeyError"
        ELSE IF invalid_dates /\ ~has("ids") THEN "KeyError"
        ELSE IF ~has("names") THEN "KeyError"
        ELSE IF ~ObjectDtype(df, "names") THEN "AttributeError"
        ELSE IF ~has("genres") THEN "KeyError"
        ELSE IF raising # {}
             THEN raised[CHOOSE i \in raising : \A j \in raising : i <= j]
        ELSE IF ~has("feat_track_ids") THEN "KeyError"
        ELSE IF ~has("playlists_found") THEN "KeyError"
        ELSE IF ~has("ids") THEN "KeyError"
        ELSE "none"

\* df[~duplicate_mask] and df[duplicate_mask] of the normalized frame (ids is
\* not assigned by clean_data, so the mask is that of the frame as read)
CleanRows(df) ==
    LET first(i) == ~Duplicated(df.rows, i)
        at == Positions(Len(df.rows), first)
    IN  [k \in DOMAIN at |-> NormalizeRow(df, df.rows[at[k]])]

\* the duplicates taken with keep=False
DuplicateRows_KeepFalse(df) ==
    LET dup(i) == \E j \in DOMAIN df.rows : j # i /\ df.rows[j].ids = df.rows[i].ids
        at == Positions(Len(df.rows), dup)
    IN  [k \in DOMAIN at |-> NormalizeRow(df, df.rows[at[k]])]

DuplicateRows(df) ==
    LET dup(i) == Duplicated(df.rows, i)
        at == Positions(Len(df.rows), dup)
    IN  [k \in DOMAIN at |-> NormalizeRow(df, df.rows[at[k]])]

\* clean_data(df): the exception raised, or the pair it returns
clean_data(df) ==
    LET e == CleanDataExc(df) IN
    IF e # "none" THEN [exc |-> e, clean_data |-> <<>>, duplicate_data |-> <<>>]
    ELSE [exc |-> "none",
          clean_data |-> CleanRows(df),
          duplicate_data |-> DuplicateRows(df)]

\* ------------------------------------------------------------- read_csv
\* The source file: whether it exists, the column labels of its header line
\* (none for a file of zero bytes) and its data lines, each a record of raw
\* texts.  "byte_FF" stands for a byte that is not UTF-8; the fallback read
\* replaces it by "U_FFFD".

SourceFile(exists, header, lines) ==
    [exists |-> exists, header |-> header, lines |-> lines]

MissingFile == SourceFile(FALSE, {}, <<>>)
ZeroByteFile == SourceFile(TRUE, {}, <<>>)

\* texts read_csv takes for a missing value (of its default list, the ones
\* modelled)
NaTexts == {<<>>, <<"N","A">>, <<"n","a","n">>, <<"N","a","N">>,
            <<"n","u","l","l">>}

IsDigits(s) == s # <<>> /\ \A i \in DOMAIN s : s[i] \in Digits

RECURSIVE Canonical(_)
\* the digits of the number a digit text is read as
Canonical(s) == IF Len(s) > 1 /\ s[1] = "0" THEN Canonical(Tail(s)) ELSE s

\* a column is read as numbers when every cell is a number or missing
NumericColumn(lines, col) ==
    \A i \in DOMAIN lines : lines[i][col] \in NaTexts \/ IsDigits(lines[i][col])

\* a cell as read: missing, a number of a numeric column, or text
TypedCell(s, numeric) ==
    IF s \in NaTexts THEN NaN
    ELSE IF numeric THEN Num(Canonical(s))
    ELSE Str(s)

\* the frame pd.read_csv builds from the lines
TypedFrame(header, lines) ==
    LET numeric == [c \in Columns |-> NumericColumn(lines, c)]
    IN  Frame(header,
              [i \in DOMAIN lines |->
                  [c \in Columns \cup {"idx"} |->
                      IF c = "idx" THEN i - 1
                      ELSE TypedCell(lines[i][c], numeric[c])]])

\* open(file_path, errors='replace'): every undecodable byte is replaced
Replaced(s) == [i \in DOMAIN s |-> IF s[i] = "byte_FF" THEN "U_FFFD" ELSE s[i]]

Undecodable(file) ==
    \E i \in DOMAIN file.lines : \E c \in Columns :
        \E k \in DOMAIN file.lines[i][c] : file.lines[i][c][k] = "byte_FF"

\* a read that answers a missing file with an empty frame
read_csv_Swallow(file) ==
    IF ~file.exists
    THEN [exc |-> "none", fallback |-> FALSE, df |-> Frame({}, <<>>)]
    ELSE [exc |-> "none", fallback |-> FALSE,
          df |-> TypedFrame(file.header, file.lines)]

\* read_csv(file_path): the exception raised, or the frame returned; fallback
\* says whether the UTF-8 read failed and the replacing read was used
read_csv(file) ==
    IF ~file.exists
    THEN [exc |-> "FileNotFoundError", fallback |-> FALSE, df |-> Frame({}, <<>>)]
    ELSE IF file.header = {}
    THEN [exc |-> "EmptyDataError", fallback |-> FALSE, df |-> Frame({}, <<>>)]
    ELSE IF Undecodable(file)
    THEN [exc |-> "none", fallback |-> TRUE,
          df |-> TypedFrame(file.header,
                            [i \in DOMAIN file.lines |->
                                [c \in Columns |-> Replaced(file.lines[i][c])]])]
    ELSE [exc |-> "none", fallback |-> FALSE,
          df |-> TypedFrame(file.header, file.lines)]

\* --------------------------------------------------------- source lines

\* most data lines of an enumerated source file
MaxRows == 5

\* "artist one"
ArtistOne == <<"a","r","t","i","s","t"," ","o","n","e">>
\* "Zoe" with an acute accent, a blank and a sharp s
AccentedName == <<"Z","o","e_acute"," ","eszett">>
\* "['pop']"
ListPop == <<"[","'","p","o","p","'","]">>
\* "['track1']"
ListTrack == <<"[","'","t","r","a","c","k","1","'","]">>

\* a tidy line (the sample of the tests), a line with every per-record
\* defect, and a line that is blank but for its key
TidyLine(key) ==
    [dates |-> IsoDate, ids |-> key, names |-> ArtistOne,
     monthly_listeners |-> <<"1","0","0","0">>, popularity |-> <<"8","0">>,
     followers |-> <<"5","0","0">>, genres |-> ListPop,
     first_release |-> <<"2","0","2","0">>, last_release |-> <<"2","0","2","4">>,
     num_releases |-> <<"5">>, num_tracks |-> <<"5","0">>,
     playlists_found |-> <<"1","0","0">>, feat_track_ids |-> ListTrack]

MessyLine(key) ==
    [dates |-> NotADate, ids |-> key, names |-> AccentedName,
     monthly_listeners |-> <<>>, popularity |-> <<"0","9">>,
     followers |-> <<"5","0","0">>, genres |-> OpenPopRock,
     first_release |-> <<"2","0","2","0">>, last_release |-> <<>>,
     num_releases |-> <<"5">>, num_tracks |-> <<"5","0">>,
     playlists_found |-> <<"c","a","f","e_acute">>,
     feat_track_ids |-> AlphaId \o <<",">> \o BadToken]

BlankLine(key) ==
    [dates |-> <<>>, ids |-> key, names |-> <<>>,
     monthly_listeners |-> <<>>, popularity |-> <<>>,
     followers |-> <<>>, genres |-> <<>>,
     first_release |-> <<>>, last_release |-> <<>>,
     num_releases |-> <<>>, num_tracks |-> <<>>,
     playlists_found |-> <<>>, feat_track_ids |-> <<>>]

\* the kinds of line, in the order the enumerated files rotate through
LineKinds == <<"tidy", "messy", "blank">>

NumKinds == Len(LineKinds)

LineOfKind(k, key) ==
    IF LineKinds[k + 1] = "tidy" THEN TidyLine(key)
    ELSE IF LineKinds[k + 1] = "messy" THEN MessyLine(key)
    ELSE BlankLine(key)

\* the keys of the enumerated lines
Keys == {<<"A">>, <<"B">>, <<"C">>}

\* most data lines of an enumerated file in which a key may be missing
MaxShortRows == 3

\* the lines with keys ks: line i is of kind (i - 1 + v) mod NumKinds, and
\* when bad is set the genres of the last line is the set-of-list literal
Lines(ks, v, bad) ==
    [i \in DOMAIN ks |->
        LET l == LineOfKind((i - 1 + v) % NumKinds, ks[i])
        IN  IF bad /\ i = Len(ks) THEN [l EXCEPT !.genres = SetOfList] ELSE l]

\* the empty text is a missing key
EnumeratedKeys ==
    UNION {[1..n -> Keys] : n \in 0..MaxRows}
        \cup UNION {[1..n -> Keys \cup {<<>>}] : n \in 0..MaxShortRows}

EnumeratedLines ==
    {Lines(ks, v, bad) :
        ks \in EnumeratedKeys, v \in 0..(NumKinds - 1), bad \in BOOLEAN}

\* the frames clean_data is called on: every enumerated file as read, and
\* the short ones with one column left out of the header
CleanFrames ==
    {TypedFrame(Columns, ls) : ls \in EnumeratedLines}
        \cup {TypedFrame(Columns \ {c}, ls) :
                c \in Columns, ls \in {l \in EnumeratedLines : Len(l) <= 1}}


\* ------------------------------------------------------ insert_to_database

\* str(x) of a list cell, as Python writes a list of strings
ListText(l) == Str(Repr(NList([i \in DOMAIN l |-> NStr(l[i])])))

\* a row of the frame handed to to_sql / to_csv: the two list columns are
\* written back to text, a column the frame does not have holds nothing
FlatRow(columns, r) ==
    [c \in Columns |->
        IF c \notin columns THEN NaN
        ELSE IF c \in {"genres", "feat_track_ids"} THEN ListText(r[c])
        ELSE r[c]]

FlatRows(columns, rows) == [i \in DOMAIN rows |-> FlatRow(columns, rows[i])]

\* ids VARCHAR(255) PRIMARY KEY of table data: an append is rejected when a
\* row has no ids or its ids is already in the table
KeyConflict(table, rows) ==
    \E i \in DOMAIN rows :
        \/ rows[i].ids = NaN
        \/ \E j \in DOMAIN table : table[j].ids = rows[i].ids

\* ----------------------------------------------------- create_backup_files

\* the columns the JSON loop reads with int(...) if pd.notna(...) else 0
IntFields == {"monthly_listeners", "popularity", "followers",
              "num_releases", "num_tracks"}

\* str(row[col]) of a cell of the clean frame
CellText(df, col, x) ==
    IF x.kind = "nan" THEN <<"n","a","n">>
    ELSE IF x.kind = "num" /\ FloatDtype(df, col) THEN x.s \o <<".", "0">>
    ELSE x.s

\* int(row[col]) if pd.notna(row[col]) else 0, in digits
CellInt(x) == IF x.kind = "nan" THEN <<"0">> ELSE Canonical(Strip(x.s))

\* one object of the "data" array
JsonObject(df, r) ==
    [c \in Columns |->
        IF c = "dates" THEN r[c]
        ELSE IF c \in {"genres", "feat_track_ids"} THEN r[c]
        ELSE IF c \in IntFields THEN CellInt(r[c])
        ELSE CellText(df, c, r[c])]

\* the exception the loop over clean_data raises ("none" when it ends)
JsonExc(df, rows) ==
    IF rows = <<>> THEN "none"
    ELSE IF ~(Columns \subseteq df.columns) THEN "KeyError"
    ELSE IF \E i \in DOMAIN rows : \E c \in IntFields :
                rows[i][c].kind = "str" /\ ~IsDigits(Strip(rows[i][c].s))
    THEN "ValueError"
    ELSE "none"

\* json_data with the rows of the frame as read counted
JsonBody_CountInput(df, rows) ==
    [row_count |-> Len(df.rows),
     data |-> [i \in DOMAIN rows |-> JsonObject(df, rows[i])]]

\* json_data
JsonBody(df, rows) ==
    [row_count |-> Len(rows),
     data |-> [i \in DOMAIN rows |-> JsonObject(df, rows[i])]]

\* what to_csv writes: the header and the flattened rows
CsvBody(df, rows) ==
    [columns |-> df.columns, lines |-> FlatRows(df.columns, rows)]

\* ------------------------------------------------------------ run_pipeline

\* create_backup_files called before insert_to_database
AfterOk_BackupFirst(op) ==
    CASE op = "connect_db"         -> "create_tables"
      [] op = "create_tables"      -> "read_csv"
      [] op = "read_csv"           -> "clean_data"
      [] op = "clean_data"         -> "to_csv"
      [] op = "to_csv"             -> "json_dump"
      [] op = "json_dump"          -> "to_sql_data"
      [] op = "to_sql_data"        -> "to_sql_data_reject"
      [] op = "to_sql_data_reject" -> "get_table_counts"
      [] op = "get_table_counts"   -> "close_connections"

\* the statement run_pipeline runs after a statement that returned; the two
\* to_sql calls are the body of insert_to_database, to_csv and json_dump
\* that of create_backup_files
AfterOk(op) ==
    CASE op = "connect_db"         -> "create_tables"
      [] op = "create_tables"      -> "read_csv"
      [] op = "read_csv"           -> "clean_data"
      [] op = "clean_data"         -> "to_sql_data"
      [] op = "to_sql_data"        -> "to_sql_data_reject"
      [] op = "to_sql_data_reject" -> "to_csv"
      [] op = "to_csv"             -> "json_dump"
      [] op = "json_dump"          -> "get_table_counts"
      [] op = "get_table_counts"   -> "close_connections"

\* most invocations of run_pipeline in a behaviour
MaxRuns == 2

\* values of EXECUTION_DATE_NODASH
Tokens == {"20240101T000000", "20240102T000000"}

\* "artist" followed by a byte that is not UTF-8
BrokenName == <<"a","r","t","i","s","t","byte_FF">>

\* the files found at /source/scrap.csv
Sources ==
    {MissingFile,
     ZeroByteFile,
     SourceFile(TRUE, Columns, <<>>),
     SourceFile(TRUE, Columns, Lines(<<<<"A">>, <<"B">>, <<"A">>>>, 0, FALSE)),
     SourceFile(TRUE, Columns, Lines(<<<<"B">>>>, 0, FALSE)),
     SourceFile(TRUE, Columns, Lines(<<<<>>>>, 0, FALSE)),
     SourceFile(TRUE, Columns, Lines(<<<<"C">>>>, 0, TRUE)),
     SourceFile(TRUE, Columns, <<[TidyLine(<<"C">>) EXCEPT !.names = BrokenName]>>),
     SourceFile(TRUE, Columns \ {"ids"}, Lines(<<<<"A">>>>, 0, FALSE)),
     SourceFile(TRUE, Columns \ {"popularity"}, Lines(<<<<"C">>>>, 0, FALSE))}


\* ------------------------------------------------------------------ state

VARIABLES
    fn,             \* the method called ("run_pipeline" in a pipeline run)
    arg,            \* the cell a normalizer is called on
    ret,            \* the outcome of the call
    df,             \* the frame read from the source
    clean,          \* clean_data, the first element of what clean_data returns
    rejected,       \* duplicate_data, the second element
    pc,             \* the statement of run_pipeline to run next
    exc,            \* the exception propagating out of run_pipeline
    engine,         \* self.engine
    connection,     \* self.connection
    test_datetime,  \* self.test_datetime
    source,         \* the file at csv_path
    data,           \* the rows of table data
    data_reject,    \* the rows of table data_reject
    target,         \* the files of /target, by name
    steps,          \* the statements this invocation has run, with the error of each
    runs,           \* invocations started
    file_processing_log,    \* the file_hash values of table file_processing_log
    dag_run,        \* the DAG run in progress: its file, its tasks and their states
    cleansed        \* the files a run_data_cleansing task has succeeded on

\* the state of the DAG
airflow == <<file_processing_log, dag_run, cleansed>>

call == <<fn, arg, ret, df, clean, rejected>>

world == <<pc, exc, engine, connection, test_datetime, source,
           data, data_reject, target, steps, runs, airflow>>

vars == <<fn, arg, ret, df, clean, rejected, pc, exc, engine, connection,
          test_datetime, source, data, data_reject, target, steps, runs,
          file_processing_log, dag_run, cleansed>>

Pending == Outcome("pending", FALSE, <<>>)

NoFrame == Frame({}, <<>>)

\* f"data_reject_{self.test_datetime}.csv" without the token: every run
\* writes the one file data_reject_.csv
CsvName_NoToken(token) == <<"data_reject_", "", ".csv">>

\* f"data_reject_{self.test_datetime}.csv", as prefix, token and suffix
CsvName(token) == <<"data_reject_", token, ".csv">>

\* f"data_{self.test_datetime}.json", as prefix, token and suffix
JsonName(token) == <<"data_", token, ".json">>

\* the names the runs can write under
FileNames == {CsvName(t) : t \in Tokens} \cup {JsonName(t) : t \in Tokens}

\* no DAG run has been triggered
NoDagRun ==
    [number |-> 0, ts_nodash |-> "none", file |-> MissingFile, task |-> "none",
     tries |-> 0, check_file_changes |-> "none", run_data_cleansing |-> "none"]

NoDag == file_processing_log = {} /\ dag_run = NoDagRun /\ cleansed = {}

\* /target without files; a file that exists is the one-element sequence of
\* its content
NoFiles == [n \in FileNames |-> <<>>]

\* no DataCleaner constructed, the store as created and nothing written
Idle ==
    /\ pc = "idle" /\ exc = "none"
    /\ engine = "none" /\ connection = "none" /\ test_datetime = "none"
    /\ source = MissingFile
    /\ data = <<>> /\ data_reject = <<>> /\ target = NoFiles
    /\ steps = <<>> /\ runs = 0
    /\ NoDag

InitFields ==
    /\ ret = Pending
    /\ \/ fn = "parse_genres" /\ arg \in {Str(s) : s \in GenreTexts} \cup {NaN}
       \/ fn = "parse_track_ids" /\ arg \in {Str(s) : s \in TrackTexts} \cup {NaN}
    /\ df = NoFrame /\ clean = <<>> /\ rejected = <<>>
    /\ Idle

CallParseGenres ==
    /\ fn = "parse_genres" /\ ret = Pending
    /\ ret' = parse_genres(arg)
    /\ UNCHANGED <<fn, arg, df, clean, rejected>>
    /\ UNCHANGED world

CallParseTrackIds ==
    /\ fn = "parse_track_ids" /\ ret = Pending
    /\ ret' = parse_track_ids(arg)
    /\ UNCHANGED <<fn, arg, df, clean, rejected>>
    /\ UNCHANGED world

NextFields == CallParseGenres \/ CallParseTrackIds

SpecFields == InitFields /\ [][NextFields]_vars

\* clean_data called on a frame
InitClean ==
    /\ fn = "clean_data" /\ arg = NaN /\ ret = Pending
    /\ df \in CleanFrames
    /\ clean = <<>> /\ rejected = <<>>
    /\ Idle

CallCleanData ==
    /\ fn = "clean_data" /\ ret = Pending
    /\ LET r == clean_data(df)
       IN  /\ ret' = Outcome(r.exc, FALSE, <<>>)
           /\ clean' = r.clean_data
           /\ rejected' = r.duplicate_data
    /\ UNCHANGED <<fn, arg, df>>
    /\ UNCHANGED world

NextClean == CallCleanData

SpecClean == InitClean /\ [][NextClean]_vars

\* ------------------------------------- create_backup_files called alone

\* most data lines of a frame create_backup_files is called on
MaxBackupRows == 2

\* "high": a popularity that is no number
High == <<"h","i","g","h">>

\* popularity texts of the first line: a number, a number with a leading
\* zero, nothing, and a text that is no number
PopularityTexts == {<<"8","0">>, <<"0","9">>, <<>>, High}

\* the frames read from the enumerated files of at most MaxBackupRows lines,
\* the popularity of the first line replaced, that clean_data returns on
BackupFrames ==
    {f \in {TypedFrame(Columns, [ls EXCEPT ![1].popularity = p]) :
                ls \in {l \in EnumeratedLines : Len(l) \in 1..MaxBackupRows},
                p \in PopularityTexts} :
        CleanDataExc(f) = "none"}

\* create_backup_files(clean_data, duplicate_data) called on what clean_data
\* returned for a frame
InitBackup ==
    /\ fn = "create_backup_files" /\ arg = NaN /\ ret = Pending
    /\ df \in BackupFrames
    /\ clean = CleanRows(df) /\ rejected = DuplicateRows(df)
    /\ pc = "idle" /\ exc = "none"
    /\ engine = "none" /\ connection = "none"
    /\ test_datetime \in Tokens
    /\ source = MissingFile
    /\ data = <<>> /\ data_reject = <<>> /\ target = NoFiles
    /\ steps = <<>> /\ runs = 0
    /\ NoDag

\* the CSV is written first; the loop over clean_data then builds json_data
\* and may raise; the JSON file is opened and written last.  to_csv or open
\* may fail with OSError.
CallCreateBackupFiles ==
    /\ fn = "create_backup_files" /\ ret = Pending
    /\ \E fault \in {"none", "to_csv", "open"} :
        LET err == IF fault = "to_csv" THEN "OSError"
                   ELSE IF JsonExc(df, clean) # "none" THEN JsonExc(df, clean)
                   ELSE IF fault = "open" THEN "OSError" ELSE "none"
        IN  /\ ret' = Outcome(err, FALSE, <<>>)
            /\ target' =
                 [n \in FileNames |->
                    IF n = CsvName(test_datetime) /\ fault # "to_csv"
                    THEN <<CsvBody(df, rejected)>>
                    ELSE IF n = JsonName(test_datetime) /\ err = "none"
                    THEN <<JsonBody(df, clean)>>
                    ELSE target[n]]
    /\ UNCHANGED <<fn, arg, df, clean, rejected, pc, exc, engine, connection,
                   test_datetime, source, data, data_reject, steps, runs, airflow>>

NextBackup == CallCreateBackupFiles

SpecBackup == InitBackup /\ [][NextBackup]_vars

\* ------------------------------------------------- run_pipeline: the steps

Init ==
    /\ fn = "run_pipeline" /\ arg = NaN /\ ret = Pending
    /\ df = NoFrame /\ clean = <<>> /\ rejected = <<>>
    /\ Idle

\* a statement of run_pipeline has run: with err = "none" it returned and
\* the next statement follows; otherwise it raised, the except clause logs
\* and raises again, and the finally clause runs (raised is the exception
\* that leaves the statement)
Finish(op, err, raised) ==
    /\ steps' = Append(steps, [op |-> op, err |-> err])
    /\ exc' = raised
    /\ pc' = IF err = "none" THEN AfterOk(op) ELSE "close_connections"

\* main(): a DataCleaner is constructed with the token of the environment
\* and run_pipeline is called on the file found at csv_path
StartRun ==
    /\ fn = "run_pipeline" /\ pc = "idle" /\ runs < MaxRuns
    /\ \E t \in Tokens, f \in Sources :
        /\ test_datetime' = t
        /\ source' = f
    /\ engine' = "none" /\ connection' = "none"
    /\ pc' = "connect_db" /\ exc' = "none" /\ steps' = <<>>
    /\ runs' = runs + 1
    /\ ret' = Pending /\ df' = NoFrame /\ clean' = <<>> /\ rejected' = <<>>
    /\ UNCHANGED <<fn, arg, data, data_reject, target, airflow>>

\* connect_db: create_engine, psycopg2.connect or set_client_encoding may
\* raise
ConnectDb ==
    /\ pc = "connect_db"
    /\ \E o \in {"ok", "create_engine", "connect", "set_client_encoding"} :
        /\ engine' = IF o = "create_engine" THEN "none" ELSE "created"
        /\ connection' = IF o \in {"ok", "set_client_encoding"} THEN "open" ELSE "none"
        /\ LET err == IF o = "ok" THEN "none"
                      ELSE IF o = "create_engine" THEN "ArgumentError"
                      ELSE "OperationalError"
           IN  Finish("connect_db", err, err)
    /\ UNCHANGED <<call, test_datetime, source, data, data_reject, target, runs, airflow>>

\* create_tables: when connection.cursor() raises, cursor is unbound in the
\* finally clause and UnboundLocalError leaves the method; when execute or
\* commit raises, the cursor is closed and the error leaves it
CreateTables ==
    /\ pc = "create_tables"
    /\ \E o \in {"ok", "cursor", "execute"} :
        Finish("create_tables",
               IF o = "ok" THEN "none"
               ELSE IF o = "cursor" THEN "InterfaceError" ELSE "OperationalError",
               IF o = "ok" THEN "none"
               ELSE IF o = "cursor" THEN "UnboundLocalError" ELSE "OperationalError")
    /\ UNCHANGED <<call, engine, connection, test_datetime, source,
                   data, data_reject, target, runs, airflow>>

ReadCsv ==
    /\ pc = "read_csv"
    /\ LET r == read_csv(source)
       IN  /\ df' = r.df
           /\ ret' = Outcome(r.exc, r.fallback, <<>>)
           /\ Finish("read_csv", r.exc, r.exc)
    /\ UNCHANGED <<fn, arg, clean, rejected, engine, connection, test_datetime,
                   source, data, data_reject, target, runs, airflow>>

CleanData ==
    /\ pc = "clean_data"
    /\ LET r == clean_data(df)
       IN  /\ clean' = r.clean_data
           /\ rejected' = r.duplicate_data
           /\ ret' = Outcome(r.exc, FALSE, <<>>)
           /\ Finish("clean_data", r.exc, r.exc)
    /\ UNCHANGED <<fn, arg, df, engine, connection, test_datetime, source,
                   data, data_reject, target, runs, airflow>>

\* clean_data_db.to_sql('data', ..., if_exists='append'): one transaction;
\* the store rejects it on a key conflict, and may reject it for a reason
\* not modelled
InsertClean ==
    /\ pc = "to_sql_data"
    /\ LET rows == FlatRows(df.columns, clean) IN
       \E fault \in BOOLEAN :
        LET err == IF KeyConflict(data, rows) THEN "IntegrityError"
                   ELSE IF fault THEN "DataError" ELSE "none"
        IN  /\ data' = IF err = "none" THEN data \o rows ELSE data
            /\ Finish("to_sql_data", err, err)
    /\ UNCHANGED <<call, engine, connection, test_datetime, source,
                   data_reject, target, runs, airflow>>

\* an insert_to_database that takes the clean rows back when the second
\* to_sql fails
InsertReject_Rollback ==
    /\ pc = "to_sql_data_reject"
    /\ \E fault \in BOOLEAN :
        LET err == IF fault THEN "DataError" ELSE "none"
        IN  /\ data_reject' = IF err = "none"
                              THEN data_reject \o FlatRows(df.columns, rejected)
                              ELSE data_reject
            /\ data' = IF err = "none" THEN data
                       ELSE SubSeq(data, 1, Len(data) - Len(clean))
            /\ Finish("to_sql_data_reject", err, err)
    /\ UNCHANGED <<call, engine, connection, test_datetime, source,
                   target, runs, airflow>>

\* duplicate_data_db.to_sql('data_reject', ..., if_exists='append')
InsertReject ==
    /\ pc = "to_sql_data_reject"
    /\ \E fault \in BOOLEAN :
        LET err == IF fault THEN "DataError" ELSE "none"
        IN  /\ data_reject' = IF err = "none"
                              THEN data_reject \o FlatRows(df.columns, rejected)
                              ELSE data_reject
            /\ Finish("to_sql_data_reject", err, err)
    /\ UNCHANGED <<call, engine, connection, test_datetime, source,
                   data, target, runs, airflow>>

\* makedirs and duplicate_data_csv.to_csv(data_reject_<token>.csv)
BackupCsv ==
    /\ pc = "to_csv"
    /\ \E fault \in BOOLEAN :
        LET err == IF fault THEN "OSError" ELSE "none"
        IN  /\ target' = IF err = "none"
                         THEN [target EXCEPT ![CsvName(test_datetime)] = <<CsvBody(df, rejected)>>]
                         ELSE target
            /\ Finish("to_csv", err, err)
    /\ UNCHANGED <<call, engine, connection, test_datetime, source,
                   data, data_reject, runs, airflow>>

\* the loop that builds json_data, then open and json.dump to
\* data_<token>.json
BackupJson ==
    /\ pc = "json_dump"
    /\ \E fault \in BOOLEAN :
        LET err == IF JsonExc(df, clean) # "none" THEN JsonExc(df, clean)
                   ELSE IF fault THEN "OSError" ELSE "none"
        IN  /\ target' = IF err = "none"
                         THEN [target EXCEPT ![JsonName(test_datetime)] = <<JsonBody(df, clean)>>]
                         ELSE target
            /\ Finish("json_dump", err, err)
    /\ UNCHANGED <<call, engine, connection, test_datetime, source,
                   data, data_reject, runs, airflow>>

GetTableCounts ==
    /\ pc = "get_table_counts"
    /\ \E fault \in BOOLEAN :
        LET err == IF fault THEN "OperationalError" ELSE "none"
        IN  /\ ret' = IF err = "none"
                      THEN Outcome("none", FALSE, <<Len(data), Len(data_reject)>>)
                      ELSE ret
            /\ Finish("get_table_counts", err, err)
    /\ UNCHANGED <<fn, arg, df, clean, rejected, engine, connection,
                   test_datetime, source, data, data_reject, target, runs, airflow>>

\* the finally clause: close_connections closes the connection and disposes
\* the engine when they are set; an exception of either is logged and not
\* raised, and one of connection.close() leaves the try block before
\* engine.dispose() is reached.  The exception of the try block of
\* run_pipeline, if any, then reaches the caller.
CloseConnections ==
    /\ pc = "close_connections"
    /\ \E o \in {"ok", "close", "dispose"} :
        /\ o = "close" => connection = "open"
        /\ o = "dispose" => engine = "created"
        /\ connection' = IF connection # "open" THEN connection
                         ELSE IF o = "close" THEN "close_failed" ELSE "closed"
        /\ engine' = IF engine # "created" \/ o = "close" THEN engine
                     ELSE IF o = "dispose" THEN "dispose_failed" ELSE "disposed"
    /\ pc' = "idle"
    /\ UNCHANGED <<call, exc, test_datetime, source, data, data_reject,
                   target, steps, runs, airflow>>

Next ==
    \/ StartRun
    \/ ConnectDb
    \/ CreateTables
    \/ ReadCsv
    \/ CleanData
    \/ InsertClean
    \/ InsertReject
    \/ BackupCsv
    \/ BackupJson
    \/ GetTableCounts
    \/ CloseConnections

Spec == Init /\ [][Next]_vars

\* ------------------------------------------------------------ the DAG
\* csv_data_cleansing_pipeline: check_source_file >> validate_database >>
\* backup_source_file >> check_file_changes >> run_data_cleansing >> the
\* tasks after it.  max_active_runs = 1: a DAG run is triggered when the one
\* before it is over.  The file at the source path is replaced between DAG
\* runs.  run_data_cleansing runs main() of the container: the statements of
\* run_pipeline above.

\* DAG runs triggered at most
MaxDagRuns == 2

\* default_args['retries']
Retries == 3

\* a file the pipeline cleanses
GoodFile == SourceFile(TRUE, Columns, Lines(<<<<"B">>>>, 0, FALSE))

\* a file without the ids column: clean_data raises KeyError on it
NoIdsFile == SourceFile(TRUE, Columns \ {"ids"}, Lines(<<<<"A">>>>, 0, FALSE))

\* the files found at the source path
DagFiles == {MissingFile, GoodFile, NoIdsFile}

\* hashlib.md5(content).hexdigest(): files of different content have
\* different digests
MD5(file) == <<"md5", file>>

\* INSERT INTO file_processing_log (file_hash) VALUES (hash)
Logged(log, hash) == log \cup {hash}

\* the scheduler creates the next DAG run
TriggerDagRun ==
    /\ fn = "run_pipeline" /\ pc = "idle"
    /\ dag_run.task \in {"none", "done"}
    /\ dag_run.number < MaxDagRuns
    /\ \E t \in Tokens, f \in DagFiles :
        dag_run' = [number |-> dag_run.number + 1, ts_nodash |-> t, file |-> f,
                    task |-> "upstream", tries |-> 0,
                    check_file_changes |-> "none",
                    run_data_cleansing |-> "none"]
    /\ UNCHANGED <<call, pc, exc, engine, connection, test_datetime, source,
                   data, data_reject, target, steps, runs,
                   file_processing_log, cleansed>>

\* check_source_file, validate_database and backup_source_file: they fail
\* when the file is missing, and may fail for another reason; the tasks
\* after a failed task are not run
UpstreamTasks ==
    /\ dag_run.task = "upstream"
    /\ \E ok \in BOOLEAN :
        /\ ok => dag_run.file.exists
        /\ dag_run' = IF ok
                      THEN [dag_run EXCEPT !.task = "check_file_changes"]
                      ELSE [dag_run EXCEPT !.task = "done",
                                           !.check_file_changes = "upstream_failed",
                                           !.run_data_cleansing = "upstream_failed"]
    /\ UNCHANGED <<call, pc, exc, engine, connection, test_datetime, source,
                   data, data_reject, target, steps, runs,
                   file_processing_log, cleansed>>

\* what check_file_changes raises: FileNotFoundError, an error of the
\* PostgresHook (fault), AirflowSkipException when the digest is in
\* file_processing_log; "none" when it returns
CheckExc(file, log, fault) ==
    IF ~file.exists THEN "FileNotFoundError"
    ELSE IF fault THEN "DatabaseError"
    ELSE IF MD5(file) \in log THEN "AirflowSkipException"
    ELSE "none"

\* the DAG run after a try of check_file_changes that ended with err
AfterCheck(run, err) ==
    IF err = "none"
    THEN [run EXCEPT !.task = "run_data_cleansing", !.tries = 0,
                     !.check_file_changes = "success"]
    ELSE IF err = "AirflowSkipException"
    THEN [run EXCEPT !.task = "done", !.check_file_changes = "skipped",
                     !.run_data_cleansing = "skipped"]
    ELSE IF run.tries < Retries
    THEN [run EXCEPT !.tries = @ + 1, !.check_file_changes = "up_for_retry"]
    ELSE [run EXCEPT !.task = "done", !.check_file_changes = "failed",
                     !.run_data_cleansing = "upstream_failed"]

\* one try of check_file_changes: the digest is inserted when it is not
\* found, before "proceed_processing" is returned
CheckFileChanges ==
    /\ dag_run.task = "check_file_changes"
    /\ \E fault \in BOOLEAN :
        \E err \in {CheckExc(dag_run.file, file_processing_log, fault)} :
            /\ file_processing_log' =
                 IF err = "none"
                 THEN Logged(file_processing_log, MD5(dag_run.file))
                 ELSE file_processing_log
            /\ dag_run' = AfterCheck(dag_run, err)
    /\ UNCHANGED <<call, pc, exc, engine, connection, test_datetime, source,
                   data, data_reject, target, steps, runs, cleansed>>

\* one try of run_data_cleansing starts the container: main() constructs a
\* DataCleaner with EXECUTION_DATE_NODASH = ts_nodash and calls run_pipeline
\* on the file at the source path
StartCleansing ==
    /\ dag_run.task = "run_data_cleansing"
    /\ dag_run.run_data_cleansing \in {"none", "up_for_retry"}
    /\ fn = "run_pipeline" /\ pc = "idle"
    /\ test_datetime' = dag_run.ts_nodash
    /\ source' = dag_run.file
    /\ engine' = "none" /\ connection' = "none"
    /\ pc' = "connect_db" /\ exc' = "none" /\ steps' = <<>>
    /\ runs' = 1
    /\ ret' = Pending /\ df' = NoFrame /\ clean' = <<>> /\ rejected' = <<>>
    /\ dag_run' = [dag_run EXCEPT !.run_data_cleansing = "running"]
    /\ UNCHANGED <<fn, arg, data, data_reject, target, file_processing_log,
                   cleansed>>

\* the container exits: with status 0 when run_pipeline returned, and the
\* task succeeds; with a traceback when it raised, and the task is retried
\* or fails
CleansingExit ==
    /\ dag_run.task = "run_data_cleansing"
    /\ dag_run.run_data_cleansing = "running"
    /\ pc = "idle"
    /\ dag_run' = IF exc = "none"
                  THEN [dag_run EXCEPT !.task = "downstream",
                                       !.run_data_cleansing = "success"]
                  ELSE IF dag_run.tries < Retries
                  THEN [dag_run EXCEPT !.tries = @ + 1,
                                       !.run_data_cleansing = "up_for_retry"]
                  ELSE [dag_run EXCEPT !.task = "done",
                                       !.run_data_cleansing = "failed"]
    /\ cleansed' = IF exc = "none" THEN cleansed \cup {dag_run.file} ELSE cleansed
    /\ UNCHANGED <<call, pc, exc, engine, connection, test_datetime, source,
                   data, data_reject, target, steps, runs, file_processing_log>>

\* validate_output_files, data_quality_check and the tasks after them
DownstreamTasks ==
    /\ dag_run.task = "downstream"
    /\ dag_run' = [dag_run EXCEPT !.task = "done"]
    /\ UNCHANGED <<call, pc, exc, engine, connection, test_datetime, source,
                   data, data_reject, target, steps, runs,
                   file_processing_log, cleansed>>

NextDag ==
    \/ TriggerDagRun
    \/ UpstreamTasks
    \/ CheckFileChanges
    \/ StartCleansing
    \/ ConnectDb
    \/ CreateTables
    \/ ReadCsv
    \/ CleanData
    \/ InsertClean
    \/ InsertReject
    \/ BackupCsv
    \/ BackupJson
    \/ GetTableCounts
    \/ CloseConnections
    \/ CleansingExit
    \/ DownstreamTasks

SpecDag == Init /\ [][NextDag]_vars

\* ------------------------------------------------- clean_data: properties

\* clean_data has returned its pair
Returned == fn = "clean_data" /\ ret.exc = "none"

\* the keys of the frame clean_data was called on, in row order
KeysOf(rows) == [i \in DOMAIN rows |-> rows[i].ids]

\* the index labels of the rows of an output, in order
Labels(rows) == [i \in DOMAIN rows |-> rows[i].idx]

\* how many rows of an output carry the index label i
Count(rows, i) == Cardinality({k \in DOMAIN rows : rows[k].idx = i})

\* C1: when clean_data returns, every row of the input is in exactly one of
\* the two outputs, so the two lengths add up to the length of the input; for
\* an input without rows both outputs are empty.
C1_Cardinality ==
    Returned =>
        /\ Len(clean) + Len(rejected) = Len(df.rows)
        /\ \A i \in 0..(Len(df.rows) - 1) : Count(clean, i) + Count(rejected, i) = 1
        /\ df.rows = <<>> => clean = <<>> /\ rejected = <<>>

C1_Witness == Returned /\ Len(clean) >= 2 /\ Len(rejected) >= 2

\* C2: when clean_data returns, no ids value appears twice in the clean set.
C2_KeyUnique ==
    Returned =>
        /\ \A i, j \in DOMAIN clean : i # j => clean[i].ids # clean[j].ids
        /\ Cardinality({clean[i].ids : i \in DOMAIN clean}) = Len(clean)

C2_Witness ==
    /\ Returned /\ Len(clean) >= 2
    /\ \E i, j \in DOMAIN df.rows : i # j /\ df.rows[i].ids = df.rows[j].ids

RECURSIVE SeenPass(_, _, _, _, _)
\* the reference partition: one pass over the keys in input order with the
\* set of keys seen so far; the result holds the index labels of both outputs
SeenPass(keys, i, seen, cl, rj) ==
    IF i > Len(keys) THEN [clean |-> cl, rejected |-> rj]
    ELSE IF keys[i] \in seen
         THEN SeenPass(keys, i + 1, seen, cl, Append(rj, i - 1))
         ELSE SeenPass(keys, i + 1, seen \cup {keys[i]}, Append(cl, i - 1), rj)

\* keys A, B, A, A, C
KeysABAAC == <<Str(<<"A">>), Str(<<"B">>), Str(<<"A">>), Str(<<"A">>), Str(<<"C">>)>>

\* C3: the partition is the one of the single pass with a seen set: the first
\* row of each key is in clean, every later one in rejected, both in input
\* order; keys A, B, A, A, C give clean rows 0, 1, 4 and rejected rows 2, 3.
C3_FirstWins ==
    Returned =>
        LET ref == SeenPass(KeysOf(df.rows), 1, {}, <<>>, <<>>)
        IN  /\ Labels(clean) = ref.clean
            /\ Labels(rejected) = ref.rejected
            /\ KeysOf(df.rows) = KeysABAAC =>
                   Labels(clean) = <<0, 1, 4>> /\ Labels(rejected) = <<2, 3>>

C3_Witness == Returned /\ KeysOf(df.rows) = KeysABAAC

\* C4: when clean_data returns, every rejected row has an ids value that a
\* clean row has too, and no input row is in both outputs.
C4_RejectedKeyInClean ==
    Returned =>
        /\ \A k \in DOMAIN rejected : \E c \in DOMAIN clean :
               clean[c].ids = rejected[k].ids
        /\ \A k \in DOMAIN rejected : \A c \in DOMAIN clean :
               clean[c].idx # rejected[k].idx

C4_Witness == Returned /\ rejected # <<>>

\* the frame has every column, and its names column holds text
WellFormedFrame == df.columns = Columns /\ ObjectDtype(df, "names")

\* C5: with every column present, clean_data completes without raising
\* whatever dates, list literals and identifier tokens the rows hold, and
\* every row is in one of the outputs.
C5_NeverAborts ==
    (fn = "clean_data" /\ ret # Pending /\ WellFormedFrame) =>
        /\ ret.exc = "none"
        /\ Len(clean) + Len(rejected) = Len(df.rows)

\* C8: when clean_data returns, the names of every row of both outputs is
\* the name as read, uppercased and then without its non-ASCII characters:
\* no lowercase letter and no character outside ASCII is left.
C8_Names ==
    Returned =>
        \A out \in {clean, rejected} : \A k \in DOMAIN out :
            LET raw == df.rows[out[k].idx + 1].names
                got == out[k].names
            IN  IF raw.kind = "str"
                THEN /\ got = Str(AsciiClean(Upper(raw.s)))
                     /\ \A i \in DOMAIN got.s : IsAscii(got.s[i]) /\ ~IsLower(got.s[i])
                ELSE got = NaN

C8_Witness ==
    /\ Returned
    /\ \E k \in DOMAIN rejected : df.rows[rejected[k].idx + 1].names = Str(AccentedName)
    /\ \E k \in DOMAIN clean : df.rows[clean[k].idx + 1].names = Str(ArtistOne)

\* ------------------------------------------- the normalizers: properties

RECURSIVE CommaPieces(_, _, _, _)
\* the reference split: one scan that closes a piece at every comma
CommaPieces(s, i, cur, acc) ==
    IF i > Len(s) THEN Append(acc, cur)
    ELSE IF s[i] = "," THEN CommaPieces(s, i + 1, <<>>, Append(acc, cur))
    ELSE CommaPieces(s, i + 1, Append(cur, s[i]), acc)

\* the candidates of a text, trimmed
Candidates(s) ==
    LET ps == CommaPieces(s, 1, <<>>, <<>>) IN [i \in DOMAIN ps |-> Strip(ps[i])]

\* exactly 22 characters, all in [a-zA-Z0-9]
Is22Alnum(c) == Len(c) = 22 /\ \A i \in DOMAIN c : IsAlnum(c[i])

\* "abcdefghijklmnopqrstuv,bad!!"
IdThenBad == AlphaId \o <<",">> \o BadToken

\* C6: parse_track_ids returns exactly the valid candidates, in their order:
\* the candidates are the comma-separated pieces of the text, trimmed (the
\* whole trimmed text when it has no comma); a candidate is kept iff it is 22
\* characters of [a-zA-Z0-9]; blank or missing input gives the empty list;
\* "abcdefghijklmnopqrstuv,bad!!" gives ["abcdefghijklmnopqrstuv"].
C6_KeepsValidIds ==
    (fn = "parse_track_ids" /\ ret # Pending) =>
        /\ ret.exc = "none"
        /\ IF arg.kind = "str"
           THEN ret.val = SelectSeq(Candidates(arg.s), Is22Alnum)
           ELSE ret.val = <<>>
        /\ arg = Str(IdThenBad) => ret.val = <<AlphaId>>

C6_Witness ==
    fn = "parse_track_ids" /\ arg = Str(IdThenBad) /\ ret.val = <<AlphaId>>

\* ["pop", "rock"] and ["[pop", "rock"]
PopRockList == <<<<"p","o","p">>, <<"r","o","c","k">>>>
OpenPopRockList == <<<<"[","p","o","p">>, <<"r","o","c","k">>>>

FallbackTokens(s) ==
    LET kept == SelectSeq(Candidates(s), LAMBDA c : c # <<>>)
    IN  [i \in DOMAIN kept |-> AsciiClean(kept[i])]

RunOver == fn = "run_pipeline" /\ pc = "idle" /\ runs > 0

\* the statement this invocation ran last
LastStep == steps[Len(steps)]

\* this invocation has run the statement
Ran(op) == \E i \in DOMAIN steps : steps[i].op = op

\* the statement ran and returned
RanOk(op) == \E i \in DOMAIN steps : steps[i] = [op |-> op, err |-> "none"]

\* the columns the statements of clean_data read
RequiredColumns == {"dates", "ids", "names", "genres", "feat_track_ids",
                    "playlists_found"}

StepOrder == <<"connect_db", "create_tables", "read_csv", "clean_data",
               "to_sql_data", "to_sql_data_reject", "to_csv", "json_dump",
               "get_table_counts">>

\* the rows of this invocation are in the two tables
Appended ==
    /\ RanOk("to_sql_data") /\ RanOk("to_sql_data_reject")
    /\ \A i \in DOMAIN clean :
           \E j \in DOMAIN data : data[j] = FlatRow(df.columns, clean[i])
    /\ \A i \in DOMAIN rejected :
           \E j \in DOMAIN data_reject :
               data_reject[j] = FlatRow(df.columns, rejected[i])

\* C10: the statements of an invocation run in the one order connect,
\* create tables, read, clean (normalize and partition), append to data,
\* append to data_reject, write the CSV, write the JSON, count; each starts
\* only after the one before it has returned; and no file of /target
\* changes unless both appends of the invocation have succeeded.
C10_StepOrder ==
    /\ [](/\ Len(steps) <= Len(StepOrder)
          /\ \A i \in DOMAIN steps : steps[i].op = StepOrder[i]
          /\ \A i \in 1..(Len(steps) - 1) : steps[i].err = "none"
          /\ (Ran("to_csv") \/ Ran("json_dump")) => Appended)
    /\ [][target' # target => Appended]_vars

\* an invocation that ran every statement, with duplicates to write
C10_Witness ==
    /\ RunOver /\ exc = "none" /\ Len(steps) = Len(StepOrder)
    /\ clean # <<>> /\ rejected # <<>>
    /\ target[JsonName(test_datetime)] = <<JsonBody(df, clean)>>
    /\ target[CsvName(test_datetime)] = <<CsvBody(df, rejected)>>

\* C11: when run_pipeline returns or raises, whatever statement it failed
\* at, close() has been called on the connection if connect_db opened one
\* and dispose() has been called on the engine if connect_db created one.
C11_Released ==
    RunOver => connection # "open" /\ engine # "created"

\* C12: whenever a run is about to append its clean set to table data, no
\* row of the clean set has an ids that a stored row holds, so the append
\* cannot violate the uniqueness of ids, whatever runs came before.
C12_NoKeyConflict ==
    (fn = "run_pipeline" /\ pc = "to_sql_data") =>
        \A i \in DOMAIN clean : \A j \in DOMAIN data : data[j].ids # clean[i].ids

\* the JSON and CSV documents of the token of this invocation
JsonFile == target[JsonName(test_datetime)][1]
CsvFile == target[CsvName(test_datetime)][1]

\* the source of the tests: ids A, B, A
SampleSource ==
    SourceFile(TRUE, Columns, Lines(<<<<"A">>, <<"B">>, <<"A">>>>, 0, FALSE))

\* C13: once an invocation has written the JSON document, its row_count is
\* the length of the clean set and of data, and data holds one object per
\* clean row in order, with the ids of that row and with genres and
\* feat_track_ids as the lists of that row (not their text); once it has
\* written the CSV, the CSV holds one line per rejected row, in order.  The
\* source with ids A, B, A gives row_count 2 and one CSV line.
C13_ArtifactShape ==
    /\ RanOk("json_dump") =>
        /\ JsonFile.row_count = Len(clean)
        /\ Len(JsonFile.data) = Len(clean)
        /\ \A i \in DOMAIN clean :
            /\ JsonFile.data[i].ids = clean[i].ids.s
            /\ JsonFile.data[i].genres = clean[i].genres
            /\ JsonFile.data[i].feat_track_ids = clean[i].feat_track_ids
        /\ source = SampleSource => JsonFile.row_count = 2
    /\ RanOk("to_csv") =>
        /\ Len(CsvFile.lines) = Len(rejected)
        /\ \A i \in DOMAIN rejected : CsvFile.lines[i].ids = rejected[i].ids
        /\ source = SampleSource => Len(CsvFile.lines) = 1

\* a completed run on the source with ids A, B, A
C13_Witness ==
    /\ RunOver /\ exc = "none" /\ source = SampleSource
    /\ JsonFile.row_count = 2 /\ Len(CsvFile.lines) = 1

\* ------------------------------------------ create_backup_files: properties

\* the cell holds a whole number
IsWhole(x) == x.kind = "num" \/ (x.kind = "str" /\ IsDigits(Strip(x.s)))

\* C14: create_backup_files does not fail because of a value of a numeric
\* field, and in the JSON document it writes, each of monthly_listeners,
\* popularity, followers, num_releases and num_tracks of a clean row is 0
\* when the value is missing or no number, and the number itself otherwise.
C14_NumericZero ==
    (fn = "create_backup_files" /\ ret # Pending) =>
        /\ ret.exc \in {"none", "OSError"}
        /\ ret.exc = "none" =>
            \A i \in DOMAIN clean : \A c \in IntFields :
                JsonFile.data[i][c] = IF IsWhole(clean[i][c])
                                      THEN Canonical(Strip(clean[i][c].s))
                                      ELSE <<"0">>

\* ----------------------------------------------------- run_pipeline: files

\* C15: a run that succeeds with token T leaves the files data_T.json and
\* data_reject_T.csv holding its own clean and rejected rows, also when no
\* row was rejected and also when an earlier run wrote under those names;
\* and no step of a run with token T changes a file of another name.
C15_TokenNames ==
    /\ [](RunOver /\ exc = "none" =>
            /\ <<"data_", test_datetime, ".json">> \in DOMAIN target
            /\ <<"data_reject_", test_datetime, ".csv">> \in DOMAIN target
            /\ target[<<"data_", test_datetime, ".json">>] = <<JsonBody(df, clean)>>
            /\ target[<<"data_reject_", test_datetime, ".csv">>] = <<CsvBody(df, rejected)>>)
    /\ [][\A n \in DOMAIN target :
            target'[n] # target[n] =>
                n \in {<<"data_", test_datetime, ".json">>,
                       <<"data_reject_", test_datetime, ".csv">>}]_vars

\* the second run, with the token of the first and no rejected row, has
\* written its CSV and finds the JSON file of the first run
C15_Witness ==
    /\ fn = "run_pipeline" /\ pc = "json_dump" /\ runs = 2
    /\ rejected = <<>>
    /\ target[CsvName(test_datetime)] = <<CsvBody(df, rejected)>>
    /\ target[JsonName(test_datetime)] # <<>>
    /\ target[JsonName(test_datetime)] # <<JsonBody(df, clean)>>

\* --------------------------------------------------- run_pipeline: loading

\* the file exists and holds no data line: nothing at all, or the header only
EmptySource == source.exists /\ source.lines = <<>>

\* C16: read_csv fails on a missing file, and on a file that exists without
\* a data line (zero bytes, or the header only) it returns a frame without
\* rows, from which clean_data returns empty clean and rejected sets.
C16_MissingVsEmpty ==
    (fn = "run_pipeline" /\ Ran("read_csv")) =>
        /\ ~source.exists => ~RanOk("read_csv") /\ (RunOver => exc # "none")
        /\ EmptySource =>
            /\ RanOk("read_csv") /\ df.rows = <<>>
            /\ Ran("clean_data") =>
                RanOk("clean_data") /\ clean = <<>> /\ rejected = <<>>

\* ------------------------------------------------ normalizers: round trip

\* the normalizer applied to str(val), the text create_backup_files writes
\* for a list
Reparsed(f, val) ==
    IF f = "parse_genres" THEN parse_genres(ListText(val))
    ELSE parse_track_ids(ListText(val))

\* C17: the list a normalizer returned, written as create_backup_files
\* writes it and given to the same normalizer again, comes back unchanged.
C17_RoundTrip ==
    (fn \in {"parse_genres", "parse_track_ids"} /\ ret # Pending /\ ret.exc = "none") =>
        Reparsed(fn, ret.val) = Outcome("none", Reparsed(fn, ret.val).warned, ret.val)

\* ------------------------------------------------- run_pipeline: persistence

\* how often this invocation ran the statement
Times(op) == Cardinality({i \in DOMAIN steps : steps[i].op = op})

\* the append to data_reject failed after the append to data had returned
RejectFailedAfterClean ==
    /\ fn = "run_pipeline"
    /\ RanOk("to_sql_data")
    /\ Ran("to_sql_data_reject") /\ ~RanOk("to_sql_data_reject")

\* the last Len(clean) rows of table data are the clean rows of this run
CleanRowsStored ==
    /\ Len(data) >= Len(clean)
    /\ SubSeq(data, Len(data) - Len(clean) + 1, Len(data)) = FlatRows(df.columns, clean)

\* C18: one invocation of run_pipeline appends to each table at most once;
\* when the append to data_reject fails after the append to data returned,
\* the clean rows are in table data and stay there, the exception reaches
\* the caller, and the invocation writes no file.
C18_NoRollback ==
    /\ [](fn = "run_pipeline" =>
            /\ Times("to_sql_data") <= 1 /\ Times("to_sql_data_reject") <= 1
            /\ RejectFailedAfterClean =>
                /\ LastStep.op = "to_sql_data_reject"
                /\ exc # "none"
                /\ CleanRowsStored)
    /\ [][RejectFailedAfterClean => data' = data /\ target' = target]_vars

\* a run whose append to data_reject failed has returned; its clean rows are
\* stored and /target holds no file
C18_Witness ==
    /\ RunOver /\ RejectFailedAfterClean
    /\ clean # <<>> /\ rejected # <<>>
    /\ CleanRowsStored /\ data_reject = <<>>
    /\ target = NoFiles

\* ------------------------------------------------------------ DAG: the gate

\* C19: when check_file_changes skips a DAG run, a run_data_cleansing task
\* has succeeded on the file before; and run_data_cleansing is started only
\* in a DAG run whose check_file_changes returned.
C19_SkipOnlyCleansed ==
    /\ dag_run.check_file_changes = "skipped" => dag_run.file \in cleansed
    /\ dag_run.run_data_cleansing \in {"running", "up_for_retry", "success", "failed"} =>
            dag_run.check_file_changes = "success"

====
